---- MODULE Spec2Model ----
(***************************************************************************)
(* The n8n MCP server of src/src/index.ts: the CallToolRequestSchema        *)
(* handler (route -> validate -> request -> shape), its argument            *)
(* validators, the requests it hands to the axios instance, the outcome     *)
(* of each call, and the SIGINT shutdown.                                   *)
(*                                                                         *)
(* JavaScript values are records of one shape, so that any two of them can *)
(* be compared: type is the value's kind, str the text of a string or a     *)
(* number, bool a boolean's value, elems an array's (string) elements,      *)
(* props an object's properties as <<key, value>> pairs in insertion order. *)
(***************************************************************************)
EXTENDS Integers, Sequences, FiniteSets, TLC

VARIABLES calls, sent, server

vars == <<calls, sent, server>>

----------------------------------------------------------------------------
(* JavaScript values *)

JsVal(t, s, b, e, p) == [type |-> t, str |-> s, bool |-> b, elems |-> e, props |-> p]

Undefined == JsVal("undefined", "", FALSE, <<>>, <<>>)

Null == JsVal("null", "", FALSE, <<>>, <<>>)

Str(s) == JsVal("string", s, FALSE, <<>>, <<>>)

Num(s) == JsVal("number", s, FALSE, <<>>, <<>>)

Bool(b) == JsVal("boolean", "", b, <<>>, <<>>)

Arr(e) == JsVal("array", "", FALSE, e, <<>>)

Obj(p) == JsVal("object", "", FALSE, <<>>, p)

\* typeof v: null and arrays are "object"
TypeOf(v) == IF v.type \in {"null", "array", "object"} THEN "object" ELSE v.type

\* Array.isArray(v)
IsArray(v) == v.type = "array"

\* ToBoolean(v), as applied by !v, v || d and if (v)
Truthy(v) ==
  CASE v.type \in {"undefined", "null"} -> FALSE
    [] v.type = "string" -> v.str # ""
    [] v.type = "number" -> v.str # "0"
    [] v.type = "boolean" -> v.bool
    [] OTHER -> TRUE

\* a || b
OrElse(a, b) == IF Truthy(a) THEN a ELSE b

\* value.join(','): only arrays have the method
RECURSIVE Join(_)
Join(e) ==
  IF Len(e) = 0 THEN ""
  ELSE IF Len(e) = 1 THEN e[1]
  ELSE e[1] \o "," \o Join(Tail(e))

\* s.includes(m)
Includes(s, m) ==
  \E i \in 1..(Len(s) - Len(m) + 1) : SubSeq(s, i, i + Len(m) - 1) = m

\* the property v.k of a value: undefined unless v is an object that has it
RECURSIVE Lookup(_, _)
Lookup(p, k) ==
  IF Len(p) = 0 THEN Undefined
  ELSE IF p[1][1] = k THEN Str(p[1][2])
  ELSE Lookup(Tail(p), k)

Prop(v, k) == IF v.type = "object" THEN Lookup(v.props, k) ELSE Undefined

\* JSON.stringify(v, null, 2)
RECURSIVE ElemLines(_)
ElemLines(e) ==
  IF Len(e) = 0 THEN ""
  ELSE "  \"" \o e[1] \o "\"" \o (IF Len(e) = 1 THEN "\n" ELSE ",\n") \o ElemLines(Tail(e))

RECURSIVE PropLines(_)
PropLines(p) ==
  IF Len(p) = 0 THEN ""
  ELSE "  \"" \o p[1][1] \o "\": \"" \o p[1][2] \o "\""
       \o (IF Len(p) = 1 THEN "\n" ELSE ",\n") \o PropLines(Tail(p))

Stringify(v) ==
  CASE v.type = "string" -> "\"" \o v.str \o "\""
    [] v.type = "number" -> v.str
    [] v.type = "boolean" -> (IF v.bool THEN "true" ELSE "false")
    [] v.type = "null" -> "null"
    [] v.type = "array" -> (IF Len(v.elems) = 0 THEN "[]" ELSE "[\n" \o ElemLines(v.elems) \o "]")
    [] v.type = "object" -> (IF Len(v.props) = 0 THEN "{}" ELSE "{\n" \o PropLines(v.props) \o "}")
    [] OTHER -> "undefined"

----------------------------------------------------------------------------
(* Errors and results *)

Fields == {"id", "name", "nodes", "connections", "active", "tags", "settings", "data"}

NoContent == <<>>

\* how a call ends: kind is "result" or the class of the error thrown; data is
\* error.response?.data of an AxiosError
Outcome(k, c, m, t, d) == [kind |-> k, code |-> c, message |-> m, content |-> t, data |-> d]

Pending == Outcome("pending", "", "", NoContent, Undefined)

\* new McpError(code, message)
McpError(code, message) == Outcome("McpError", code, message, NoContent, Undefined)

\* a TypeError thrown by the runtime
TypeError(message) == Outcome("TypeError", "", message, NoContent, Undefined)

\* { content: [ { type: 'text', text } ] }
TextResult(text) == Outcome("result", "", "", <<[type |-> "text", text |-> text]>>, Undefined)

Thrown(e) == [ok |-> FALSE, err |-> e, val |-> <<>>]

Returned(v) == [ok |-> TRUE, err |-> Pending, val |-> v]

IdMessage == "Workflow ID is required and must be a string"

NameMessage == "Workflow name is required and must be a string"

----------------------------------------------------------------------------
(* Validation functions *)

\* validateWorkflowId without its typeof test
validateWorkflowIdAnyType(args) ==
  IF ~Truthy(args["id"])
  THEN Thrown(McpError("InvalidParams", IdMessage))
  ELSE Returned([k \in {"id"} |-> args["id"]])

validateWorkflowId(args) ==
  IF ~Truthy(args["id"]) \/ TypeOf(args["id"]) # "string"
  THEN Thrown(McpError("InvalidParams", IdMessage))
  ELSE Returned([k \in {"id"} |-> args["id"]])

validateCreateWorkflow(args) ==
  IF ~Truthy(args["name"]) \/ TypeOf(args["name"]) # "string"
  THEN Thrown(McpError("InvalidParams", NameMessage))
  ELSE Returned(
    [k \in {"name", "nodes", "connections", "active", "tags", "settings"} |->
      CASE k = "name" -> args["name"]
        [] k = "nodes" -> IF IsArray(args["nodes"]) THEN args["nodes"] ELSE Arr(<<>>)
        [] k = "connections" ->
             IF TypeOf(args["connections"]) = "object" THEN args["connections"] ELSE Obj(<<>>)
        [] k = "active" ->
             IF TypeOf(args["active"]) = "boolean" THEN args["active"] ELSE Bool(FALSE)
        [] k = "tags" -> IF IsArray(args["tags"]) THEN args["tags"] ELSE Arr(<<>>)
        [] k = "settings" ->
             IF TypeOf(args["settings"]) = "object" /\ args["settings"] # Null
             THEN args["settings"]
             ELSE Obj(<< <<"executionOrder", "v1">> >>)])

validateUpdateWorkflow(args) ==
  IF ~Truthy(args["id"]) \/ TypeOf(args["id"]) # "string"
  THEN Thrown(McpError("InvalidParams", IdMessage))
  ELSE Returned(
    [k \in {"id", "name", "nodes", "connections", "active", "tags"} |->
      CASE k = "id" -> args["id"]
        [] k = "name" -> IF TypeOf(args["name"]) = "string" THEN args["name"] ELSE Undefined
        [] k = "nodes" -> IF IsArray(args["nodes"]) THEN args["nodes"] ELSE Undefined
        [] k = "connections" ->
             IF TypeOf(args["connections"]) = "object" THEN args["connections"] ELSE Undefined
        [] k = "active" ->
             IF TypeOf(args["active"]) = "boolean" THEN args["active"] ELSE Undefined
        [] k = "tags" -> IF IsArray(args["tags"]) THEN args["tags"] ELSE Undefined])

validateExecuteWorkflow(args) ==
  IF ~Truthy(args["id"]) \/ TypeOf(args["id"]) # "string"
  THEN Thrown(McpError("InvalidParams", IdMessage))
  ELSE Returned(
    [k \in {"id", "data"} |->
      CASE k = "id" -> args["id"]
        [] k = "data" -> IF TypeOf(args["data"]) = "object" THEN args["data"] ELSE Obj(<<>>)])

----------------------------------------------------------------------------
(* The HTTP client adapter *)

NoFields == <<>>

\* what a handler passes to axiosInstance.get/post/patch/delete: params is the
\* params object, body the data argument ("none" when the call has no data
\* argument, "object" for an object literal built by the handler, "value" for
\* a caller's value passed on as it is)
Request(m, p, q, b) == [method |-> m, path |-> p, params |-> q, body |-> b]

NoBody == [kind |-> "none", fields |-> NoFields, value |-> Undefined]

ObjectBody(f) == [kind |-> "object", fields |-> f, value |-> Undefined]

ValueBody(v) == [kind |-> "value", fields |-> NoFields, value |-> v]

\* the JSON text of an object omits the properties whose value is undefined
Serialized(f) == [k \in {x \in DOMAIN f : f[x] # Undefined} |-> f[k]]

\* the body on the wire
WireBody(b) == IF b.kind = "object" THEN ObjectBody(Serialized(b.fields)) ELSE b

\* validateStatus left at the adapter's default, which raises on 4xx too
validateStatusDefault(status) == status >= 200 /\ status < 300

\* validateStatus: (status) => status < 500
validateStatus(status) == status < 500

\* status 0 stands for a transport-level failure: there is no response
Raises(resp) == resp.status = 0 \/ ~validateStatus(resp.status)

\* the AxiosError the adapter raises: error.message and error.response?.data
AxiosErrorOf(resp) ==
  Outcome("AxiosError", "", resp.errmsg, NoContent,
          IF resp.status = 0 THEN Undefined ELSE resp.data)

----------------------------------------------------------------------------
(* The handlers, up to their await *)

Started(req, id) == [req |-> req, frame |-> [id |-> id], err |-> Pending]

Failed(e) == [req |-> Request("", "", NoFields, NoBody), frame |-> [id |-> ""], err |-> e]

ListParams(args) ==
  [k \in {x \in {"active", "tags"} :
            \/ x = "active" /\ args["active"] # Undefined
            \/ x = "tags" /\ Truthy(args["tags"])} |->
     IF k = "active" THEN args["active"] ELSE Str(Join(args["tags"].elems))]

handleListWorkflows(args) ==
  IF Truthy(args["tags"]) /\ ~IsArray(args["tags"])
  THEN Failed(TypeError("args.tags.join is not a function"))
  ELSE Started(Request("GET", "/workflows", ListParams(args), NoBody), "")

handleGetWorkflow(args) ==
  Started(Request("GET", "/workflows/" \o args["id"].str, NoFields, NoBody), args["id"].str)

handleCreateWorkflow(args) ==
  Started(Request("POST", "/workflows", NoFields,
    ObjectBody([k \in {"name", "nodes", "connections", "settings"} |->
      CASE k = "name" -> args["name"]
        [] k = "nodes" -> OrElse(args["nodes"], Arr(<<>>))
        [] k = "connections" -> OrElse(args["connections"], Obj(<<>>))
        [] k = "settings" -> OrElse(args["settings"], Obj(<< <<"executionOrder", "v1">> >>))])),
    "")

handleUpdateWorkflow(args) ==
  Started(Request("PATCH", "/workflows/" \o args["id"].str, NoFields,
    ObjectBody([k \in DOMAIN args \ {"id"} |-> args[k]])), args["id"].str)

handleDeleteWorkflow(args) ==
  Started(Request("DELETE", "/workflows/" \o args["id"].str, NoFields, NoBody), args["id"].str)

handleActivateWorkflow(args) ==
  Started(Request("POST", "/workflows/" \o args["id"].str \o "/activate", NoFields, NoBody),
          args["id"].str)

handleDeactivateWorkflow(args) ==
  Started(Request("POST", "/workflows/" \o args["id"].str \o "/deactivate", NoFields, NoBody),
          args["id"].str)

handleExecuteWorkflow(args) ==
  Started(Request("POST", "/workflows/" \o args["id"].str \o "/execute", NoFields,
    ValueBody(OrElse(args["data"], Obj(<<>>)))), args["id"].str)

----------------------------------------------------------------------------
(* The CallToolRequestSchema handler *)

Catalog ==
  {"list_workflows", "get_workflow", "create_workflow", "update_workflow",
   "delete_workflow", "activate_workflow", "deactivate_workflow", "execute_workflow"}

\* a catch clause that recasts every error as InternalError
HandlerCatchAll(error) ==
  McpError("InternalError",
    "n8n API error: " \o OrElse(Prop(error.data, "message"), Str(error.message)).str)

\* the catch clause of the handler
HandlerCatch(error) ==
  IF error.kind = "AxiosError"
  THEN McpError("InternalError",
         "n8n API error: " \o OrElse(Prop(error.data, "message"), Str(error.message)).str)
  ELSE error

\* a validator's throw is caught by the catch clause and thrown on
Caught(v) == Failed(HandlerCatch(v.err))

\* the switch: everything the handler does before it returns a promise
Route(name, args) ==
  LET byId == validateWorkflowId(args)
      create == validateCreateWorkflow(args)
      update == validateUpdateWorkflow(args)
      execute == validateExecuteWorkflow(args)
  IN CASE name = "list_workflows" -> handleListWorkflows(args)
       [] name = "get_workflow" ->
            IF byId.ok THEN handleGetWorkflow(byId.val) ELSE Caught(byId)
       [] name = "create_workflow" ->
            IF create.ok THEN handleCreateWorkflow(create.val) ELSE Caught(create)
       [] name = "update_workflow" ->
            IF update.ok THEN handleUpdateWorkflow(update.val) ELSE Caught(update)
       [] name = "delete_workflow" ->
            IF byId.ok THEN handleDeleteWorkflow(byId.val) ELSE Caught(byId)
       [] name = "activate_workflow" ->
            IF byId.ok THEN handleActivateWorkflow(byId.val) ELSE Caught(byId)
       [] name = "deactivate_workflow" ->
            IF byId.ok THEN handleDeactivateWorkflow(byId.val) ELSE Caught(byId)
       [] name = "execute_workflow" ->
            IF execute.ok THEN handleExecuteWorkflow(execute.val) ELSE Caught(execute)
       [] OTHER -> Failed(HandlerCatch(McpError("MethodNotFound", "Unknown tool: " \o name)))

HtmlDiagnostic ==
  "Error: Received HTML instead of JSON. Please check that N8N_API_URL points to the API endpoint (should end with /api/v1)"

\* the text block a handler builds from response.data
Shape(name, frame, data) ==
  CASE name = "list_workflows" /\ TypeOf(data) = "string" /\ Includes(data.str, "<!DOCTYPE html>") ->
         TextResult(HtmlDiagnostic)
    [] name = "delete_workflow" /\ ~Truthy(data) ->
         TextResult("Workflow " \o frame.id \o " deleted successfully")
    [] OTHER -> TextResult(Stringify(data))

\* the handler returns the promise of handleX without awaiting it: a rejection
\* of that promise settles the call and does not pass through the catch clause
Rejected(error) == error

\* a handler after its await: the adapter's error is logged and thrown again,
\* a response is shaped
Continue(name, frame, resp) ==
  IF Raises(resp) THEN Rejected(AxiosErrorOf(resp)) ELSE Shape(name, frame, resp.data)

----------------------------------------------------------------------------
(* What the host and the remote service may send *)

MaxCalls == 2

\* request.params.arguments || {}: a field the caller left out reads as undefined
Arguments(given) == [f \in Fields |-> IF f \in DOMAIN given THEN given[f] ELSE Undefined]

Call(name, given) == [name |-> name, args |-> Arguments(given)]

IdValues == {Undefined, Null, Str(""), Str("5"), Num("5"), Bool(TRUE), Arr(<<"5">>)}

ListInputs ==
  {Call("list_workflows", [k \in {"active", "tags"} |-> IF k = "active" THEN a ELSE t]) :
     a \in {Undefined, Bool(TRUE), Bool(FALSE), Str("yes")},
     t \in {Undefined, Arr(<<>>), Arr(<<"a">>), Arr(<<"a", "b">>), Str("x")}}

IdInputs ==
  {Call(n, [k \in {"id"} |-> i]) :
     n \in {"get_workflow", "delete_workflow", "activate_workflow", "deactivate_workflow"},
     i \in IdValues}

CreateInputs ==
  {Call("create_workflow",
        [k \in {"id", "name", "nodes", "connections", "active", "tags", "settings"} |->
           CASE k = "id" -> Undefined
             [] k = "name" -> n
             [] k = "nodes" -> no
             [] k = "connections" -> co
             [] k = "active" -> ac
             [] k = "tags" -> ta
             [] k = "settings" -> se]) :
     n \in {Undefined, Str("wf"), Num("5")},
     no \in {Undefined, Arr(<<"n1">>), Str("x")},
     co \in {Undefined, Null, Arr(<<>>), Obj(<< <<"n1", "n2">> >>), Str("x")},
     ac \in {Undefined, Bool(TRUE)},
     ta \in {Undefined, Arr(<<"x">>)},
     se \in {Undefined, Null, Arr(<<>>), Obj(<< <<"timezone", "UTC">> >>), Str("x")}}

UpdateInputs ==
  {Call("update_workflow",
        [k \in {"id", "name", "nodes", "connections", "active", "tags"} |->
           CASE k = "id" -> i
             [] k = "name" -> n
             [] k = "nodes" -> no
             [] k = "connections" -> co
             [] k = "active" -> ac
             [] k = "tags" -> ta]) :
     i \in {Undefined, Str("5"), Num("5")},
     n \in {Undefined, Str("renamed"), Num("5")},
     no \in {Undefined, Arr(<<"n1">>), Str("x")},
     co \in {Undefined, Null, Arr(<<>>), Obj(<< <<"n1", "n2">> >>), Str("x")},
     ac \in {Undefined, Bool(FALSE), Str("yes")},
     ta \in {Undefined, Arr(<<>>), Str("x")}}

ExecuteInputs ==
  {Call("execute_workflow", [k \in {"id", "data"} |-> IF k = "id" THEN i ELSE d]) :
     i \in {Undefined, Str("5"), Num("5")},
     d \in {Undefined, Null, Obj(<<>>), Obj(<< <<"x", "1">> >>), Arr(<<"a">>), Str("x")}}

UnknownInputs ==
  {Call(n, [k \in {"id"} |-> i]) :
     n \in {"frobnicate", "List_Workflows", ""}, i \in {Undefined, Str("5")}}

Inputs ==
  ListInputs \cup IdInputs \cup CreateInputs \cup UpdateInputs \cup ExecuteInputs
    \cup UnknownInputs

\* the calls the host sends when several are in flight
ConcInputs ==
  {Call("list_workflows", [k \in {"tags"} |-> Arr(<<"a", "b">>)]),
   Call("get_workflow", [k \in {"id"} |-> Str("5")]),
   Call("delete_workflow", [k \in {"id"} |-> Str("7")]),
   Call("delete_workflow", [k \in {"id"} |-> Undefined]),
   Call("frobnicate", [k \in {"id"} |-> Str("5")])}

Response(status, data, errmsg) == [status |-> status, data |-> data, errmsg |-> errmsg]

NoResponse == Response(-1, Undefined, "")

\* what the remote service answers; status 0 is a transport-level failure
Responses ==
  {Response(200, Obj(<< <<"id", "5">> >>), ""),
   Response(200, Str(""), ""),
   Response(200, Str("<!DOCTYPE html><html></html>"), ""),
   Response(404, Obj(<< <<"message", "not found">> >>), ""),
   Response(500, Obj(<< <<"message", "rate limited">> >>), "Request failed with status code 500"),
   Response(503, Str(""), "Request failed with status code 503"),
   Response(0, Undefined, "Network Error")}

\* the answers of the remote service when several calls are in flight
ConcResponses ==
  {Response(200, Obj(<< <<"id", "5">> >>), ""),
   Response(200, Str(""), ""),
   Response(500, Obj(<< <<"message", "rate limited">> >>), "Request failed with status code 500"),
   Response(0, Undefined, "Network Error")}

----------------------------------------------------------------------------
(* The server *)

Idle ==
  [pc |-> "idle", name |-> "", args |-> Arguments(<<>>), frame |-> [id |-> ""],
   resp |-> NoResponse, outcome |-> Pending]

InitOf(ids) ==
  /\ calls = [c \in ids |-> Idle]
  /\ sent = [c \in ids |-> <<>>]
  /\ server = "running"

\* the handler runs to the promise it returns: a throw ends the call, an HTTP
\* request leaves it suspended at the await
Invoke(c, in) ==
  /\ server = "running"
  /\ calls[c].pc = "idle"
  /\ LET r == Route(in.name, in.args) IN
       IF r.err # Pending
       THEN /\ calls' = [calls EXCEPT ![c] =
                  [@ EXCEPT !.pc = "done", !.name = in.name, !.args = in.args,
                            !.outcome = r.err]]
            /\ UNCHANGED sent
       ELSE /\ calls' = [calls EXCEPT ![c] =
                  [@ EXCEPT !.pc = "awaiting", !.name = in.name, !.args = in.args,
                            !.frame = r.frame]]
            /\ sent' = [sent EXCEPT ![c] = Append(@, r.req)]
  /\ UNCHANGED server

CallTool(c) == \E in \in Inputs : Invoke(c, in)

ConcCallTool(c) == \E in \in ConcInputs : Invoke(c, in)

\* the remote service answers the request of call c, or the transport fails
Answer(c, r) ==
  /\ server # "exited"
  /\ calls[c].pc = "awaiting"
  /\ calls' = [calls EXCEPT ![c] = [@ EXCEPT !.pc = "responded", !.resp = r]]
  /\ UNCHANGED <<sent, server>>

Respond(c) == \E r \in Responses : Answer(c, r)

ConcRespond(c) == \E r \in ConcResponses : Answer(c, r)

\* Resume with the handler's locals kept in a field of the server object, which
\* the highest-numbered call in flight has overwritten
ResumeShared(c) ==
  /\ server # "exited"
  /\ calls[c].pc = "responded"
  /\ LET inflight == {d \in DOMAIN calls : calls[d].pc \in {"awaiting", "responded"}}
         last == CHOOSE d \in inflight : \A e \in inflight : e <= d
     IN calls' = [calls EXCEPT ![c] =
          [@ EXCEPT !.pc = "done",
                    !.outcome = Continue(calls[c].name, calls[last].frame, calls[c].resp)]]
  /\ UNCHANGED <<sent, server>>

\* Resume with one retry of a request the adapter raised on
ResumeRetry(c) ==
  /\ server # "exited"
  /\ calls[c].pc = "responded"
  /\ IF Raises(calls[c].resp) /\ Len(sent[c]) < 2
     THEN /\ calls' = [calls EXCEPT ![c] = [@ EXCEPT !.pc = "awaiting", !.resp = NoResponse]]
          /\ sent' = [sent EXCEPT ![c] = Append(@, sent[c][1])]
     ELSE /\ calls' = [calls EXCEPT ![c] =
               [@ EXCEPT !.pc = "done",
                         !.outcome = Continue(calls[c].name, calls[c].frame, calls[c].resp)]]
          /\ UNCHANGED sent
  /\ UNCHANGED server

\* the handler of call c resumes after its await
Resume(c) ==
  /\ server # "exited"
  /\ calls[c].pc = "responded"
  /\ calls' = [calls EXCEPT ![c] =
        [@ EXCEPT !.pc = "done",
                  !.outcome = Continue(calls[c].name, calls[c].frame, calls[c].resp)]]
  /\ UNCHANGED <<sent, server>>

\* SIGINT: await this.server.close()
Sigint ==
  /\ server = "running"
  /\ server' = "closing"
  /\ UNCHANGED <<calls, sent>>

\* SIGINT: process.exit(0)
Exit ==
  /\ server = "closing"
  /\ server' = "exited"
  /\ UNCHANGED <<calls, sent>>

Init == InitOf({1})

Next ==
  \/ \E c \in DOMAIN calls : CallTool(c)
  \/ \E c \in DOMAIN calls : Respond(c)
  \/ \E c \in DOMAIN calls : Resume(c)
  \/ Sigint
  \/ Exit

Spec == Init /\ [][Next]_vars

ConcInit == InitOf(1..MaxCalls)

ConcNext ==
  \/ \E c \in DOMAIN calls : ConcCallTool(c)
  \/ \E c \in DOMAIN calls : ConcRespond(c)
  \/ \E c \in DOMAIN calls : Resume(c)
  \/ Sigint
  \/ Exit

ConcSpec == ConcInit /\ [][ConcNext]_vars

\* the remote service answers or fails, and the event loop runs a ready continuation
Fairness == \A c \in 1..MaxCalls : WF_vars(ConcRespond(c)) /\ WF_vars(Resume(c))

LiveSpec == ConcInit /\ [][ConcNext]_vars /\ Fairness

----------------------------------------------------------------------------
(* Claims *)

IdOps ==
  {"get_workflow", "update_workflow", "delete_workflow", "activate_workflow",
   "deactivate_workflow", "execute_workflow"}

MissingOrNotString(v) == v = Undefined \/ v.type # "string"

InvalidParamsNoRequest(c) ==
  /\ calls[c].pc = "done"
  /\ calls[c].outcome.kind = "McpError"
  /\ calls[c].outcome.code = "InvalidParams"
  /\ sent[c] = <<>>

\* C1 as stated, over the seven operations that run a validator: a call of any
\* of them whose id is missing or not a string ends in InvalidParams and issues
\* no HTTP request.
C1_SevenOpsRejectBadId ==
  \A c \in DOMAIN calls :
    /\ calls[c].pc # "idle"
    /\ calls[c].name \in IdOps \cup {"create_workflow"}
    /\ MissingOrNotString(calls[c].args["id"])
    => InvalidParamsNoRequest(c)

\* C1 amended: a call of one of the six operations that take an id whose id is
\* missing or not a string ends in InvalidParams and issues no HTTP request;
\* create_workflow is checked on name in the same way, and not on id.
C1_IdOpsRejectBadId ==
  \A c \in DOMAIN calls :
    /\ calls[c].pc # "idle"
       /\ calls[c].name \in IdOps
       /\ MissingOrNotString(calls[c].args["id"])
       => InvalidParamsNoRequest(c) /\ calls[c].outcome.message = IdMessage
    /\ calls[c].pc # "idle"
       /\ calls[c].name = "create_workflow"
       /\ MissingOrNotString(calls[c].args["name"])
       => InvalidParamsNoRequest(c) /\ calls[c].outcome.message = NameMessage

C1_Witness ==
  \E c \in DOMAIN calls :
    /\ calls[c].name = "execute_workflow"
    /\ calls[c].args["id"] = Num("5")
    /\ InvalidParamsNoRequest(c)

AdapterRaised(c) ==
  /\ calls[c].pc = "done"
  /\ calls[c].resp # NoResponse
  /\ (calls[c].resp.status = 0 \/ calls[c].resp.status >= 500)

\* C2: when the adapter raises (status >= 500 or a transport failure), the call
\* ends in McpError InternalError with message "n8n API error: " followed by
\* the message field of the response body when present, else by the adapter's
\* message.
C2_AdapterErrorTranslated ==
  \A c \in DOMAIN calls :
    AdapterRaised(c) =>
      calls[c].outcome =
        McpError("InternalError",
          "n8n API error: " \o
            (IF calls[c].resp.status # 0 /\ Prop(calls[c].resp.data, "message") # Undefined
             THEN Prop(calls[c].resp.data, "message").str
             ELSE calls[c].resp.errmsg))

\* C3: a call whose name is not one of the eight catalog names ends in McpError
\* MethodNotFound with message "Unknown tool: <name>", not recast as
\* InternalError, and issues no HTTP request.
C3_UnknownTool ==
  \A c \in DOMAIN calls :
    calls[c].pc # "idle" /\ calls[c].name \notin Catalog =>
      /\ calls[c].pc = "done"
      /\ calls[c].outcome = McpError("MethodNotFound", "Unknown tool: " \o calls[c].name)
      /\ sent[c] = <<>>

C3_Witness ==
  \E c \in DOMAIN calls :
    /\ calls[c].name = "List_Workflows"
    /\ calls[c].pc = "done"
    /\ calls[c].outcome.code = "MethodNotFound"

\* C4: every call that has ended has either a result of exactly one text block
\* or a McpError of kind InvalidParams, MethodNotFound or InternalError.
C4_ResultOrProtocolError ==
  \A c \in DOMAIN calls :
    calls[c].pc = "done" =>
      \/ /\ calls[c].outcome.kind = "result"
         /\ Len(calls[c].outcome.content) = 1
         /\ calls[c].outcome.content[1].type = "text"
      \/ /\ calls[c].outcome.kind = "McpError"
         /\ calls[c].outcome.code \in {"InvalidParams", "MethodNotFound", "InternalError"}

IsMapping(v) == v.type = "object"

WellTyped(k, v) ==
  CASE k = "name" -> v.type = "string"
    [] k \in {"nodes", "tags"} -> v.type = "array"
    [] k = "connections" -> IsMapping(v)
    [] k = "active" -> v.type = "boolean"

\* C5: the PATCH body of an update_workflow call holds exactly the fields among
\* name, nodes, connections, active, tags that were supplied with the right
\* type, each with the supplied value; id and every other field are left out.
C5_UpdateBody ==
  \A c \in DOMAIN calls :
    calls[c].name = "update_workflow" /\ Len(sent[c]) > 0 =>
      LET body == WireBody(sent[c][1].body)
          kept == {k \in {"name", "nodes", "connections", "active", "tags"} :
                     WellTyped(k, calls[c].args[k])}
      IN /\ sent[c][1].method = "PATCH"
         /\ sent[c][1].path = "/workflows/" \o calls[c].args["id"].str
         /\ body.kind = "object"
         /\ DOMAIN body.fields = kept
         /\ \A k \in kept : body.fields[k] = calls[c].args[k]

\* C6: the POST body of a create_workflow call has exactly the keys name,
\* nodes, connections, settings: nodes is the supplied sequence else [],
\* connections the supplied mapping (not null, not an array) else {}, settings
\* the supplied non-null object else {executionOrder: "v1"}; active and tags
\* are never in it.
C6_CreateBody ==
  \A c \in DOMAIN calls :
    calls[c].name = "create_workflow" /\ Len(sent[c]) > 0 =>
      LET body == WireBody(sent[c][1].body)
          args == calls[c].args
      IN /\ sent[c][1].method = "POST"
         /\ sent[c][1].path = "/workflows"
         /\ body.kind = "object"
         /\ DOMAIN body.fields = {"name", "nodes", "connections", "settings"}
         /\ body.fields["name"] = args["name"]
         /\ body.fields["nodes"] =
              (IF args["nodes"].type = "array" THEN args["nodes"] ELSE Arr(<<>>))
         /\ body.fields["connections"] =
              (IF IsMapping(args["connections"]) THEN args["connections"] ELSE Obj(<<>>))
         /\ body.fields["settings"] =
              (IF args["settings"].type \in {"object", "array"} THEN args["settings"]
               ELSE Obj(<< <<"executionOrder", "v1">> >>))

\* C7: the GET /workflows request of a list_workflows call carries active if and
\* only if the caller gave a boolean active, and carries tags, joined with
\* commas, if and only if the caller gave a non-empty sequence of tags.
C7_ListQuery ==
  \A c \in DOMAIN calls :
    calls[c].name = "list_workflows" /\ Len(sent[c]) > 0 =>
      LET params == sent[c][1].params
          args == calls[c].args
      IN /\ sent[c][1].method = "GET"
         /\ sent[c][1].path = "/workflows"
         /\ "active" \in DOMAIN params <=> args["active"].type = "boolean"
         /\ "active" \in DOMAIN params => params["active"] = args["active"]
         /\ "tags" \in DOMAIN params <=>
              (args["tags"].type = "array" /\ Len(args["tags"].elems) > 0)
         /\ "tags" \in DOMAIN params => params["tags"] = Str(Join(args["tags"].elems))

C9_Independent ==
  \A c \in DOMAIN calls :
    calls[c].pc # "idle" =>
      LET alone == Route(calls[c].name, calls[c].args) IN
        /\ sent[c] = (IF alone.err = Pending THEN <<alone.req>> ELSE <<>>)
        /\ calls[c].pc = "done" =>
             calls[c].outcome =
               (IF alone.err = Pending
                THEN Continue(calls[c].name, alone.frame, calls[c].resp)
                ELSE alone.err)

C9_Witness ==
  \E c, d \in DOMAIN calls :
    /\ c < d
    /\ calls[c].pc = "responded"
    /\ calls[c].name = "get_workflow"
    /\ calls[d].pc = "done"
    /\ calls[d].name = "delete_workflow"
    /\ calls[d].outcome = TextResult("Workflow 7 deleted successfully")

\* C10 as stated: a call whose HTTP request has been dispatched eventually ends,
\* whatever the process does, the SIGINT shutdown included.
C10_DispatchedCallEnds ==
  \A c \in 1..MaxCalls : (calls[c].pc = "awaiting") ~> (calls[c].pc = "done")

\* C10 amended: a call issues at most one HTTP request, exactly one once it is
\* dispatched, and a dispatched call eventually ends unless the SIGINT
\* shutdown exits the process first.
C10_EndsUnlessExited ==
  /\ [](\A c \in 1..MaxCalls :
          /\ Len(sent[c]) <= 1
          /\ calls[c].pc \in {"awaiting", "responded"} => Len(sent[c]) = 1)
  /\ \A c \in 1..MaxCalls :
       (calls[c].pc = "awaiting") ~> (calls[c].pc = "done" \/ server = "exited")

C10_Witness ==
  \E c \in DOMAIN calls :
    /\ calls[c].pc = "done"
    /\ calls[c].outcome.kind = "AxiosError"
    /\ Len(sent[c]) = 1
    /\ server = "closing"

====
